---- MODULE Spec2Model ----
(***************************************************************************)
(* Verification model of distributed-kvstore: the consistent-hash ring     *)
(* manager (hashring/hashring.go), the replicated store (store/store.go),  *)
(* the health monitor (store/health.go) and the HTTP adapter               *)
(* (handler/handler.go).                                                   *)
(*                                                                         *)
(* Conventions.                                                            *)
(*  - A uint32 is kept as two 16-bit limbs <<hi, lo>> (TLC integers are    *)
(*    32-bit signed); HashStr is FNV-1a computed on those limbs, so ring   *)
(*    positions are the real hash values of the strings used.              *)
(*  - Indexes into the ring are 0-based as in the Go code; At(r, i) reads  *)
(*    a Go slice element.                                                  *)
(*  - A Go error value is a string, "nil" for no error.                    *)
(*  - SpecRing drives the ring manager through its API, as its tests do.  *)
(*    Spec is one node: the adapter serving one request at a time, the     *)
(*    store, and the health monitor running beside it. The peers are the   *)
(*    environment; they answer in any way an HTTP peer can.                *)
(***************************************************************************)
EXTENDS Integers, Sequences, FiniteSets, TLC

(***************************************************************************)
(* Bounds of the model.                                                    *)
(***************************************************************************)
\* Virtual nodes per peer. The code sets 100; the model scales it down.
VirtualNodesFactor == 2
\* Number of AddNode/RemoveNode calls a client of the ring manager's API makes
\* (AddNode never fails, so the ring could grow without bound).
MaxMutations == 2
\* Largest configured peer list handed to NewHashRingManager / NewStore.
MaxNodes == 3
\* Largest replication factor handed to NewStore.
MaxReplicationFactor == 3
\* The replica walk is followed for this many laps of the ring it started on.
WalkLaps == 1

(***************************************************************************)
(* Strings of the model and their UTF-8 bytes.                             *)
(***************************************************************************)
PeerNames == {"a", "b", "c", "d"}
KeyNames  == {"k", "x"}
\* two peer names with the same FNV-1a hash: HashStr gives "liquid#vn" and
\* "costarring#vn" the same position, for every vn
CollidingNames == {"liquid", "costarring"}

StrBytes ==
    ("a" :> <<97>>) @@ ("b" :> <<98>>) @@ ("c" :> <<99>>) @@ ("d" :> <<100>>) @@
    ("k" :> <<107>>) @@ ("x" :> <<120>>) @@ ("" :> <<>>) @@
    ("liquid" :> <<108, 105, 113, 117, 105, 100>>) @@
    ("costarring" :> <<99, 111, 115, 116, 97, 114, 114, 105, 110, 103>>)

\* fmt.Sprintf("%d", n) for n >= 0
RECURSIVE Decimal(_)
Decimal(n) == IF n < 10 THEN <<48 + n>> ELSE Decimal(n \div 10) \o <<48 + (n % 10)>>

\* fmt.Sprintf("%s#%d", node, vn)
VirtualNodeKey(node, vn) == StrBytes[node] \o <<35>> \o Decimal(vn)

(***************************************************************************)
(* HashStr: FNV-1a, 32 bit (hash/fnv New32a, Write, Sum32).                *)
(***************************************************************************)
RECURSIVE XorBits(_, _, _)
XorBits(a, b, n) ==
    IF n = 0 THEN 0
    ELSE (((a % 2) + (b % 2)) % 2) + 2 * XorBits(a \div 2, b \div 2, n - 1)

\* offset basis 2166136261 = 0x811C9DC5
FnvOffset32 == <<33052, 40389>>

\* h = (h XOR byte) * 16777619 mod 2^32, with 16777619 = 2^24 + 403
FnvStep(h, byte) ==
    LET lo1   == (h[2] \div 256) * 256 + XorBits(h[2] % 256, byte, 8)
        prod  == lo1 * 403
        hiNew == (h[1] * 403 + (prod \div 65536) + (lo1 % 256) * 256) % 65536
    IN  <<hiNew, prod % 65536>>

RECURSIVE FnvWrite(_, _)
FnvWrite(h, bytes) ==
    IF bytes = <<>> THEN h ELSE FnvWrite(FnvStep(h, Head(bytes)), Tail(bytes))

HashBytes(bytes) == FnvWrite(FnvOffset32, bytes)

\* the hashes the model uses, computed once
VNodeHashTable ==
    [p \in PeerNames \cup CollidingNames |->
        [vn \in 0..(VirtualNodesFactor - 1) |-> HashBytes(VirtualNodeKey(p, vn))]]
KeyHashTable == [k \in KeyNames |-> HashBytes(StrBytes[k])]

VNodeHash(node, vn) == VNodeHashTable[node][vn]
HashStr(key) == KeyHashTable[key]

\* uint32 comparison on limbs
Less32(x, y) == x[1] < y[1] \/ (x[1] = y[1] /\ x[2] < y[2])
Geq32(x, y)  == ~Less32(x, y)

(***************************************************************************)
(* HashRing and HashRingManager (hashring/hashring.go, current revision).  *)
(***************************************************************************)
At(r, i) == r[i + 1]

NodeMap(node, vn) == [Node |-> node, VirtualNodeID |-> vn]
ZeroNodeMap == [Node |-> "", VirtualNodeID |-> 0]

\* m[k] = v on a Go map
MapPut(m, k, v) == [x \in (DOMAIN m) \cup {k} |-> IF x = k THEN v ELSE m[x]]
\* delete(m, k)
MapDelete(m, k) == [x \in (DOMAIN m) \ {k} |-> m[x]]
\* m[k] with the zero value for a missing key
MapGet(m, k) == IF k \in DOMAIN m THEN m[k] ELSE ZeroNodeMap

\* sort.Search(n, f) with f(i) = ring[i] >= hash: the library's binary search,
\* whatever the order of the ring
RECURSIVE SearchLoop(_, _, _, _)
SearchLoop(r, hash, i, j) ==
    IF i < j
    THEN LET h == (i + j) \div 2
         IN  IF ~Geq32(At(r, h), hash)
             THEN SearchLoop(r, hash, h + 1, j)
             ELSE SearchLoop(r, hash, i, h)
    ELSE i
Search(r, hash) == SearchLoop(r, hash, 0, Len(r))

\* sort.Sort(h.ring): ascending by HashRing.Less
RECURSIVE InsertSorted(_, _)
InsertSorted(r, x) ==
    IF r = <<>> THEN <<x>>
    ELSE IF Less32(x, Head(r)) THEN <<x>> \o r
         ELSE <<Head(r)>> \o InsertSorted(Tail(r), x)
RECURSIVE SortRing(_)
SortRing(r) == IF r = <<>> THEN <<>> ELSE InsertSorted(SortRing(Tail(r)), Head(r))

\* generateHashRing: `order` is the order in which `range h.activeNodes`
\* yields the peers (Go leaves the iteration order of a map unspecified)
RECURSIVE GenerateLoop(_, _, _)
GenerateLoop(st, order, vn) ==
    IF order = <<>> THEN st
    ELSE IF vn >= VirtualNodesFactor THEN GenerateLoop(st, Tail(order), 0)
    ELSE LET hash == VNodeHash(Head(order), vn)
         IN  GenerateLoop([ring    |-> Append(st.ring, hash),
                           hashMap |-> MapPut(st.hashMap, hash, NodeMap(Head(order), vn))],
                          order, vn + 1)
GenerateHashRing(order) ==
    LET st == GenerateLoop([ring |-> <<>>, hashMap |-> <<>>], order, 0)
    IN  [ring |-> SortRing(st.ring), hashMap |-> st.hashMap]

\* a GetRingIndex without the test of the empty ring
GetRingIndexNoEmptyTest(r, hash) ==
    LET i == Search(r, hash)
    IN  IF i < Len(r)
        THEN IF i = Len(r) - 1 /\ Less32(At(r, i), hash)
             THEN [idx |-> 0, err |-> "nil"]
             ELSE [idx |-> i, err |-> "nil"]
        ELSE [idx |-> 0, err |-> "hash is out of range"]

\* GetRingIndex(hash) (int, error)
GetRingIndex(r, hash) ==
    IF Len(r) = 0 THEN [idx |-> 0, err |-> "ring is empty"]
    ELSE LET i == Search(r, hash)
         IN  IF i < Len(r)
             THEN IF i = Len(r) - 1 /\ Less32(At(r, i), hash)
                  THEN [idx |-> 0, err |-> "nil"]
                  ELSE [idx |-> i, err |-> "nil"]
             ELSE [idx |-> 0, err |-> "hash is out of range"]

\* append(h.ring[:position], h.ring[position+1:]...)
RemoveAt(r, position) == SubSeq(r, 1, position) \o SubSeq(r, position + 2, Len(r))

\* one iteration of the loop of RemoveNode, for virtual node vn
RemoveNodeIter(st, node, vn) ==
    LET hash     == VNodeHash(node, vn)
        position == Search(st.ring, hash)
    IN  IF position < Len(st.ring) /\ At(st.ring, position) = hash
        THEN [ring |-> RemoveAt(st.ring, position), hashMap |-> MapDelete(st.hashMap, hash)]
        ELSE st

RECURSIVE RemoveNodeLoop(_, _, _)
RemoveNodeLoop(st, node, vn) ==
    IF vn >= VirtualNodesFactor THEN st
    ELSE RemoveNodeLoop(RemoveNodeIter(st, node, vn), node, vn + 1)

\* RemoveNode(node), whole call
RemoveNode(r, hm, active, node) ==
    LET st == RemoveNodeLoop([ring |-> r, hashMap |-> hm], node, 0)
    IN  [ring |-> st.ring, hashMap |-> st.hashMap, activeNodes |-> active \ {node}]

\* AddNode, first loop: hashesToAdd and positionsToAdd in virtual-node order
HashesToAdd(node) == [i \in 1..VirtualNodesFactor |-> VNodeHash(node, i - 1)]
PositionsToAdd(r, node) == [i \in 1..VirtualNodesFactor |-> Search(r, VNodeHash(node, i - 1))]

\* AddNode, inner loop `for len(positionsToAdd) > 0 && i == positionsToAdd[0]`;
\* currentIndex is the length of the part of newRing filled so far
RECURSIVE AddDrain(_, _, _)
AddDrain(st, i, node) ==
    IF Len(st.positionsToAdd) > 0 /\ i = Head(st.positionsToAdd)
    THEN AddDrain([newRing        |-> Append(st.newRing, Head(st.hashesToAdd)),
                   hashMap        |-> MapPut(st.hashMap, Head(st.hashesToAdd),
                                             NodeMap(node, Len(st.newRing) % VirtualNodesFactor)),
                   positionsToAdd |-> Tail(st.positionsToAdd),
                   hashesToAdd    |-> Tail(st.hashesToAdd)], i, node)
    ELSE st

\* AddNode, merge loop `for i, hash := range h.ring`
RECURSIVE AddMerge(_, _, _, _)
AddMerge(st, r, i, node) ==
    IF i >= Len(r) THEN st
    ELSE LET s1 == AddDrain(st, i, node)
         IN  AddMerge([s1 EXCEPT !.newRing = Append(@, At(r, i))], r, i + 1, node)

\* AddNode, last loop `for _, hash := range hashesToAdd`
RECURSIVE AddRest(_, _)
AddRest(st, node) ==
    IF st.hashesToAdd = <<>> THEN st
    ELSE AddRest([st EXCEPT !.newRing = Append(@, Head(st.hashesToAdd)),
                            !.hashMap = MapPut(@, Head(st.hashesToAdd),
                                               NodeMap(node, Len(st.newRing) % VirtualNodesFactor)),
                            !.hashesToAdd = Tail(@)], node)

\* AddNode(node), whole call
AddNode(r, hm, active, node) ==
    LET st0 == [newRing |-> <<>>, hashMap |-> hm,
                positionsToAdd |-> PositionsToAdd(r, node),
                hashesToAdd |-> HashesToAdd(node)]
        st  == AddRest(AddMerge(st0, r, 0, node), node)
    IN  [ring |-> st.newRing, hashMap |-> st.hashMap, activeNodes |-> active \cup {node}]

\* GetNodeMapForRingIndex(index) (NodeMap, error)
GetNodeMapForRingIndex(r, hm, index) ==
    IF index < 0 \/ index >= Len(r)
    THEN [nodeMap |-> ZeroNodeMap, err |-> "index out of range"]
    ELSE [nodeMap |-> MapGet(hm, At(r, index)), err |-> "nil"]

\* HasNode(node)
HasNode(active, node) == node \in active

\* Len()
RingLen(r) == Len(r)

(***************************************************************************)
(* State.                                                                  *)
(***************************************************************************)
VARIABLES
    nodes,          \* HashRingManager.nodes / Store.nodes: the configured peer list
    ring,           \* HashRingManager.ring
    hashMap,        \* HashRingManager.hashMap: position -> NodeMap
    activeNodes,    \* HashRingManager.activeNodes
    call,           \* the last call made on the ring manager's API and its result
    mutations,      \* number of AddNode/RemoveNode calls made through the API
    mutex,          \* HashRingManager.mutex: 0 when free, else the probe holding it exclusively
    replicationFactor, readQuorum, writeQuorum,     \* Store parameters
    data,           \* Store.data
    mu,             \* Store.mu: TRUE while Set or Delete holds it exclusively
    req,            \* the request the adapter is serving (one at a time)
    tasks,          \* the replicateNode goroutines of that request, by peer
    errs,           \* the channel errs of replicate: its buffer, and whether it is closed
    workload,       \* the requests clients and peers send to the node in this run
    tick,           \* HealthCheck loop: "sleep" or "running" (inside performHealthCheck)
    probes,         \* the checkNode goroutines of the current tick, by index in nodes
    cluster         \* the other nodes of a cluster and the requests between them

storeVars == <<mutex, replicationFactor, readQuorum, writeQuorum, data, mu, req, tasks, errs,
              workload, tick, probes, cluster>>
ringVars == <<nodes, ring, hashMap, activeNodes, mutations, storeVars>>

(***************************************************************************)
(* Inputs.                                                                 *)
(***************************************************************************)
PeerOrder == <<"a", "b", "c", "d">>
SeqOfPeers(S) == SelectSeq(PeerOrder, LAMBDA p : p \in S)
Range(f) == {f[i] : i \in DOMAIN f}
\* the peer lists a manager is constructed with
NodeLists == {SeqOfPeers(S) : S \in {T \in SUBSET PeerNames : Cardinality(T) <= MaxNodes}}
\* the orders in which a Go map holding the set S can be ranged over
MapOrders(S) == {f \in [1..Cardinality(S) -> S] : \A i, j \in DOMAIN f : f[i] = f[j] => i = j}

\* hashes handed to GetRingIndex: the key hashes, every position of the ring,
\* the virtual-node hashes of every peer, and the two ends of the uint32 range
ProbeHashes(r) ==
    {HashStr(k) : k \in KeyNames} \cup Range(r)
        \cup {VNodeHash(p, vn) : p \in PeerNames, vn \in 0..(VirtualNodesFactor - 1)}
        \cup {<<0, 0>>, <<65535, 65535>>}

(***************************************************************************)
(* The ring manager driven through its API (as hashring_test.go does).     *)
(***************************************************************************)
NoCall == [op |-> "none"]
\* one node alone: no other node is part of the run
NoCluster == <<>>

\* the store is not part of the API-level specification of the ring manager
StoreUnused ==
    /\ mutex = 0
    /\ replicationFactor = 0 /\ readQuorum = 0 /\ writeQuorum = 0
    /\ data = <<>>
    /\ mu = FALSE
    /\ req = [pc |-> "idle"]
    /\ tasks = <<>>
    /\ errs = [buf |-> {}, closed |-> FALSE]
    /\ workload = {}
    /\ tick = "sleep"
    /\ probes = <<>>
    /\ cluster = NoCluster

\* NewHashRingManager(nodes)
NewHashRingManager(list, order) ==
    LET g == GenerateHashRing(order)
    IN  [nodes |-> list, ring |-> g.ring, hashMap |-> g.hashMap, activeNodes |-> Range(list)]

InitRing ==
    \E list \in NodeLists : \E order \in MapOrders(Range(list)) :
        LET h == NewHashRingManager(list, order)
        IN  /\ nodes = h.nodes
            /\ ring = h.ring
            /\ hashMap = h.hashMap
            /\ activeNodes = h.activeNodes
            /\ call = NoCall
            /\ mutations = 0
            /\ StoreUnused

Before == [ring |-> ring, hashMap |-> hashMap, activeNodes |-> activeNodes]

CallAddNode(p) ==
    /\ mutations < MaxMutations
    /\ mutations' = mutations + 1
    /\ LET h == AddNode(ring, hashMap, activeNodes, p)
       IN  /\ ring' = h.ring
           /\ hashMap' = h.hashMap
           /\ activeNodes' = h.activeNodes
    /\ call' = [op |-> "AddNode", node |-> p, before |-> Before]
    /\ UNCHANGED <<nodes, storeVars>>

CallRemoveNode(p) ==
    /\ mutations < MaxMutations
    /\ mutations' = mutations + 1
    /\ LET h == RemoveNode(ring, hashMap, activeNodes, p)
       IN  /\ ring' = h.ring
           /\ hashMap' = h.hashMap
           /\ activeNodes' = h.activeNodes
    /\ call' = [op |-> "RemoveNode", node |-> p, before |-> Before]
    /\ UNCHANGED <<nodes, storeVars>>

CallGetRingIndex(hash) ==
    /\ call' = [op |-> "GetRingIndex", hash |-> hash, ret |-> GetRingIndex(ring, hash)]
    /\ UNCHANGED ringVars

CallGetNodeMapForRingIndex(index) ==
    /\ call' = [op |-> "GetNodeMapForRingIndex", index |-> index,
                ret |-> GetNodeMapForRingIndex(ring, hashMap, index)]
    /\ UNCHANGED ringVars

CallHasNode(p) ==
    /\ call' = [op |-> "HasNode", node |-> p, ret |-> HasNode(activeNodes, p)]
    /\ UNCHANGED ringVars

CallLen ==
    /\ call' = [op |-> "Len", ret |-> RingLen(ring)]
    /\ UNCHANGED ringVars

NextRing ==
    \/ \E p \in PeerNames : CallAddNode(p)
    \/ \E p \in PeerNames : CallRemoveNode(p)
    \/ \E hash \in ProbeHashes(ring) : CallGetRingIndex(hash)
    \/ \E index \in (-1)..Len(ring) : CallGetNodeMapForRingIndex(index)
    \/ \E p \in PeerNames : CallHasNode(p)
    \/ CallLen

vars == <<nodes, ring, hashMap, activeNodes, call, mutations, storeVars>>

SpecRing == InitRing /\ [][NextRing]_vars

\* the ring manager of peers whose virtual nodes hash to the same positions
CollidingLists ==
    {<<>>, <<"liquid">>, <<"costarring">>, <<"liquid", "costarring">>,
     <<"costarring", "liquid">>}

InitColliding ==
    \E list \in CollidingLists : \E order \in MapOrders(Range(list)) :
        LET h == NewHashRingManager(list, order)
        IN  /\ nodes = h.nodes
            /\ ring = h.ring
            /\ hashMap = h.hashMap
            /\ activeNodes = h.activeNodes
            /\ call = NoCall
            /\ mutations = 0
            /\ StoreUnused

NextColliding ==
    \/ \E p \in CollidingNames : CallAddNode(p)
    \/ \E p \in CollidingNames : CallRemoveNode(p)
    \/ \E hash \in Range(ring) \cup {HashStr(k) : k \in KeyNames} : CallGetRingIndex(hash)
    \/ \E index \in (-1)..Len(ring) : CallGetNodeMapForRingIndex(index)
    \/ \E p \in CollidingNames : CallHasNode(p)
    \/ CallLen

SpecColliding == InitColliding /\ [][NextColliding]_vars

(***************************************************************************)
(* The program: Store (store/store.go), health monitor (store/health.go)   *)
(* and adapter (handler/handler.go) of one node. Its peers are the         *)
(* environment: each answers a replication request or a health probe in    *)
(* any of the ways an HTTP peer can.                                       *)
(***************************************************************************)
\* the value of the X-Replication header that marks a replication echo
ReplicationHeaderValue == "true"

\* answers of a peer to a replication request: a status below 400, a status
\* from 400 on, or no response (transport error or the client's 2 s timeout)
PeerAnswers == {[err |-> "nil", status |-> 200],
                [err |-> "nil", status |-> 500],
                [err |-> "timeout", status |-> 0]}
\* answers of a peer to GET /health
ProbeAnswers == {[err |-> "nil", status |-> 200],
                 [err |-> "nil", status |-> 503],
                 [err |-> "timeout", status |-> 0]}

\* the requests a node receives, from clients and from peers, over the given
\* keys, values and header values ("" is the empty key, the empty body, the
\* absent header); what a handler never reads (the body of a GET or DELETE,
\* the header of a GET) is left out
RequestsOver(keys, values, headers) ==
    [method : {"PUT"}, key : keys, value : values, header : headers, bodyOk : {TRUE}]
    \cup [method : {"PUT"}, key : keys \ {""}, value : {""}, header : {""}, bodyOk : {FALSE}]
    \cup [method : {"DELETE"}, key : keys, value : {""}, header : headers, bodyOk : {TRUE}]
    \cup [method : {"GET"}, key : keys, value : {""}, header : {""}, bodyOk : {TRUE}]
    \cup [method : {"POST"}, key : keys \ {""}, value : {""}, header : {""}, bodyOk : {TRUE}]

\* the workload of the runs of Spec
BasicRequests == RequestsOver({"k", ""}, {"v", ""}, {"true", ""})

\* the peer lists a store is started with
StoreNodeLists == {list \in NodeLists : Range(list) \subseteq {"a", "b", "c"}}

\* a NewStore without the single-node case
NewStoreNoSingleNode(list, rf) ==
    LET halfNodes == Len(list) \div 2
    IN  [readQuorum        |-> halfNodes + 1,
         writeQuorum       |-> halfNodes + 1,
         replicationFactor |-> rf]

\* NewStore(nodes, replicationFactor)
NewStore(list, rf) ==
    LET halfNodes == Len(list) \div 2
    IN  [readQuorum        |-> IF Len(list) = 1 THEN 1 ELSE halfNodes + 1,
         writeQuorum       |-> IF Len(list) = 1 THEN 1 ELSE halfNodes + 1,
         replicationFactor |-> IF Len(list) = 1 THEN 0 ELSE rf]

IdleReq == [pc |-> "idle"]
NoProbe == [pc |-> "idle", vn |-> 0]

\* the state after NewStore(list, rf), before the first request and the first tick
Started(list, order, rf, requests) ==
    LET h == NewHashRingManager(list, order)
        s == NewStore(list, rf)
    IN  /\ nodes = h.nodes
        /\ ring = h.ring
        /\ hashMap = h.hashMap
        /\ activeNodes = h.activeNodes
        /\ mutex = 0
        /\ replicationFactor = s.replicationFactor
        /\ readQuorum = s.readQuorum
        /\ writeQuorum = s.writeQuorum
        /\ data = <<>>
        /\ mu = FALSE
        /\ req = IdleReq
        /\ tasks = <<>>
        /\ errs = [buf |-> {}, closed |-> FALSE]
        /\ workload = requests
        /\ cluster = NoCluster
        /\ tick = "sleep"
        /\ probes = [i \in 1..Len(list) |-> NoProbe]
        /\ call = NoCall
        /\ mutations = 0

Init ==
    \E list \in StoreNodeLists : \E order \in MapOrders(Range(list)) :
    \E rf \in 0..MaxReplicationFactor :
        Started(list, order, rf, BasicRequests)

ringState == <<ring, hashMap, activeNodes, mutex>>
config == <<nodes, replicationFactor, readQuorum, writeQuorum, workload, call, mutations,
            cluster>>
healthVars == <<tick, probes>>

(************************* Store.Get / Set / Delete ************************)
\* Get(key) (string, bool)
Get(d, key) == IF key \in DOMAIN d THEN [val |-> d[key], ok |-> TRUE]
               ELSE [val |-> "", ok |-> FALSE]

\* a validation that lets an empty value through
ValidationKeyOnly(method, key, value) ==
    IF key = "" THEN "key cannot be empty" ELSE "nil"

\* the validation of Set and Delete
ValidationError(method, key, value) ==
    IF method = "PUT"
    THEN IF key = "" \/ value = "" THEN "key or value cannot be empty" ELSE "nil"
    ELSE IF key = "" THEN "key cannot be empty" ELSE "nil"

\* a Set that keeps the value a key already has
LocalUpdateKeepFirst(d, method, key, value) ==
    IF method = "PUT"
    THEN [x \in (DOMAIN d) \cup {key} |-> IF x \in DOMAIN d THEN d[x] ELSE value]
    ELSE [x \in (DOMAIN d) \ {key} |-> d[x]]

\* an update that keeps no other key
LocalUpdateOnlyKey(d, method, key, value) ==
    IF method = "PUT"
    THEN [x \in {key} |-> value]
    ELSE [x \in {} |-> ""]

\* a Delete that leaves the map as it is
LocalUpdateNoDelete(d, method, key, value) ==
    IF method = "PUT"
    THEN [x \in (DOMAIN d) \cup {key} |-> IF x = key THEN value ELSE d[x]]
    ELSE d

\* s.data[key] = value, delete(s.data, key)
LocalUpdate(d, method, key, value) ==
    IF method = "PUT"
    THEN [x \in (DOMAIN d) \cup {key} |-> IF x = key THEN value ELSE d[x]]
    ELSE [x \in (DOMAIN d) \ {key} |-> d[x]]

\* a handler that does not look at the marker
SkipReplicationNever(header) == FALSE

\* a handler that takes any value of the header for the marker
SkipReplicationAnyValue(header) == header # ""

\* handlePut / handleDelete: skipReplication := r.Header.Get(ReplicationHeader) == "true"
SkipReplication(header) == header = ReplicationHeaderValue

\* an adapter that answers every successful write with 200
WriteStatusAlwaysOK(method, exists, err) == IF err # "nil" THEN 500 ELSE 200

\* the status the adapter writes once Set/Delete returned err
WriteStatus(method, exists, err) ==
    IF err # "nil" THEN 500
    ELSE IF method = "PUT" THEN (IF exists THEN 200 ELSE 201)
    ELSE 200

\* the handler returns: the response, and the locals of replicate are gone
Respond(r, err, status) ==
    [r EXCEPT !.pc = "done", !.err = err, !.status = status,
              !.idx = 0, !.i = 0, !.index = 0, !.steps = 0, !.len0 = 0,
              !.peers0 = {}]

\* handleReplication wraps the error of replicate
WrapReplicationError(err) ==
    IF err = "nil" THEN "nil" ELSE "failed to set value with replication: " \o err

(***************************** Handler.ServeHTTP ***************************)
\* the peers owning positions of the ring
Owners(r, hm) == {MapGet(hm, r[j]).Node : j \in DOMAIN r}

\* ServeHTTP up to the first suspension point: method dispatch, handleGet as a
\* whole, for PUT/DELETE the key, the existence check, the body and the
\* validation of Set/Delete
ServeHTTP(method, key, value, header, bodyOk) ==
    /\ req.pc \in {"idle", "done", "panic"}
    /\ LET r0 == [pc |-> "serve", method |-> method, key |-> key, value |-> value,
                  header |-> header, skip |-> SkipReplication(header),
                  exists |-> (method = "PUT" /\ Get(data, key).ok), err |-> "nil", status |-> 0,
                  idx |-> 0, i |-> 0, index |-> 0, steps |-> 0, len0 |-> 0, peers0 |-> {},
                  selectedNodes |-> {}, successCount |-> 0, multiErr |-> {},
                  got |-> ""]
           verr == ValidationError(method, key, value)
       IN  req' =
             IF method = "GET"
             THEN IF Get(data, key).ok
                  THEN [Respond(r0, "nil", 200) EXCEPT !.got = Get(data, key).val]
                  ELSE Respond(r0, "Not found", 404)
             ELSE IF method \notin {"PUT", "DELETE"}
             THEN Respond(r0, "Method not allowed", 405)
             ELSE IF method = "PUT" /\ ~bodyOk
             THEN Respond(r0, "Invalid request body", 400)
             ELSE IF verr # "nil"
             THEN Respond(r0, verr, 500)
             ELSE [r0 EXCEPT !.pc = "local"]
    /\ tasks' = <<>>
    /\ errs' = [buf |-> {}, closed |-> FALSE]
    /\ UNCHANGED <<data, mu, ringState, config, healthVars>>

\* Set/Delete: s.mu.Lock()
LocalLock ==
    /\ req.pc = "local"
    /\ ~mu
    /\ mu' = TRUE
    /\ req' = [req EXCEPT !.pc = "locked"]
    /\ UNCHANGED <<data, tasks, errs, ringState, config, healthVars>>

\* a Set/Delete that does not unlock after the update
LocalWriteKeepLock ==
    /\ req.pc = "locked"
    /\ data' = LocalUpdate(data, req.method, req.key, req.value)
    /\ mu' = mu
    /\ req' = IF req.skip
              THEN Respond(req, "nil", WriteStatus(req.method, req.exists, "nil"))
              ELSE [req EXCEPT !.pc = "replicate"]
    /\ UNCHANGED <<tasks, errs, ringState, config, healthVars>>

\* Set/Delete: the update; s.mu.Unlock(); then handleReplication with
\* skipReplication set returns nil at once
LocalWrite ==
    /\ req.pc = "locked"
    /\ data' = LocalUpdate(data, req.method, req.key, req.value)
    /\ mu' = FALSE
    /\ req' = IF req.skip
              THEN Respond(req, "nil", WriteStatus(req.method, req.exists, "nil"))
              ELSE [req EXCEPT !.pc = "replicate"]
    /\ UNCHANGED <<tasks, errs, ringState, config, healthVars>>

(****************************** Store.replicate ****************************)
\* replicate returned err to handleReplication, Set/Delete and the handler
ReturnFromReplicate(r, err) ==
    Respond(r, WrapReplicationError(err), WriteStatus(r.method, r.exists, err))

\* a replicate without the test of replicationFactor == 0
ReplicateStartAlways ==
    /\ req.pc = "replicate"
    /\ LET found == GetRingIndex(ring, HashStr(req.key))
       IN  req' = IF found.err # "nil" THEN ReturnFromReplicate(req, found.err)
                  ELSE [req EXCEPT !.pc = "walkLen", !.idx = found.idx, !.i = 0,
                                   !.len0 = Len(ring), !.peers0 = Owners(ring, hashMap)]
    /\ UNCHANGED <<data, mu, tasks, errs, ringState, config, healthVars>>

\* replicate up to the loop: the replicationFactor test, the channel, HashStr and
\* GetRingIndex (which takes no lock). len0 and peers0 record the ring the walk
\* starts on.
ReplicateStart ==
    /\ req.pc = "replicate"
    /\ LET found == GetRingIndex(ring, HashStr(req.key))
       IN  req' = IF replicationFactor = 0 THEN ReturnFromReplicate(req, "nil")
                  ELSE IF found.err # "nil" THEN ReturnFromReplicate(req, found.err)
                  ELSE [req EXCEPT !.pc = "walkLen", !.idx = found.idx, !.i = 0,
                                   !.len0 = Len(ring), !.peers0 = Owners(ring, hashMap)]
    /\ UNCHANGED <<data, mu, tasks, errs, ringState, config, healthVars>>

\* loop body, the argument (idx + i) % s.ringManager.Len(): Len() holds the
\* shared lock; a remainder by zero panics
WalkLen ==
    /\ req.pc = "walkLen"
    /\ req.steps < WalkLaps * req.len0 + 1
    /\ mutex = 0
    /\ req' = IF RingLen(ring) = 0 THEN [req EXCEPT !.pc = "panic"]
              ELSE [req EXCEPT !.pc = "walkGet", !.index = (req.idx + req.i) % RingLen(ring)]
    /\ UNCHANGED <<data, mu, tasks, errs, ringState, config, healthVars>>

\* a walk that takes the owner of every next slot, selected before or not
WalkGetEverySlot ==
    /\ req.pc = "walkGet"
    /\ mutex = 0
    /\ LET found == GetNodeMapForRingIndex(ring, hashMap, req.index)
           node  == found.nodeMap.Node
       IN  IF found.err # "nil"
           THEN /\ req' = ReturnFromReplicate(req, found.err)
                /\ UNCHANGED tasks
           ELSE /\ req' = [req EXCEPT !.selectedNodes = @ \cup {node},
                                      !.i = @ + 1, !.steps = @ + 1,
                                      !.pc = IF req.i + 1 < replicationFactor
                                             THEN "walkLen" ELSE "collect"]
                /\ tasks' = [n \in (DOMAIN tasks) \cup {node} |->
                                IF n = node THEN "running" ELSE tasks[n]]
    /\ UNCHANGED <<data, mu, errs, ringState, config, healthVars>>

\* loop body from GetNodeMapForRingIndex (shared lock) to the loop test
WalkGet ==
    /\ req.pc = "walkGet"
    /\ mutex = 0
    /\ LET found == GetNodeMapForRingIndex(ring, hashMap, req.index)
           node  == found.nodeMap.Node
       IN  IF found.err # "nil"
           THEN /\ req' = ReturnFromReplicate(req, found.err)
                /\ UNCHANGED tasks
           ELSE IF node \notin req.selectedNodes
           THEN /\ req' = [req EXCEPT !.selectedNodes = @ \cup {node},
                                      !.i = @ + 1, !.steps = @ + 1,
                                      !.pc = IF req.i + 1 < replicationFactor
                                             THEN "walkLen" ELSE "collect"]
                /\ tasks' = [n \in (DOMAIN tasks) \cup {node} |->
                                IF n = node THEN "running" ELSE tasks[n]]
           ELSE /\ req' = [req EXCEPT !.idx = @ + 1, !.steps = @ + 1, !.pc = "walkLen"]
                /\ UNCHANGED tasks
    /\ UNCHANGED <<data, mu, errs, ringState, config, healthVars>>

\* what replicateNode sends on errs for a peer's answer: nil, or an error that
\* names the peer
Outcome(node, answer) ==
    IF answer.err # "nil" THEN "failed to replicate to " \o node
    ELSE IF answer.status >= 400 THEN "failed to replicate to " \o node
    ELSE "nil"

\* a replicateNode that sends errors only, and nothing for an ack
ReplicateNodeErrorsOnly(node, answer) ==
    /\ req.pc = "collect"
    /\ node \in DOMAIN tasks
    /\ tasks[node] = "running"
    /\ tasks' = [tasks EXCEPT ![node] = "done"]
    /\ errs' = IF Outcome(node, answer) = "nil" THEN errs
               ELSE [errs EXCEPT !.buf = @ \cup {[from |-> node, err |-> Outcome(node, answer)]}]
    /\ UNCHANGED <<data, mu, req, ringState, config, healthVars>>

\* replicateNode(node, ...): the request marked X-Replication: true, the answer
\* of the peer, the send on errs. The buffer of errs is kept as the set of what
\* was sent, each with its sender: the order of arrival orders the text of the
\* composite error and nothing else. Only the collecting loop reads what is
\* sent, so an answer is taken to arrive once replicate has reached that loop;
\* the goroutines replicate left behind by returning early stay running.
ReplicateNode(node, answer) ==
    /\ req.pc = "collect"
    /\ node \in DOMAIN tasks
    /\ tasks[node] = "running"
    /\ tasks' = [tasks EXCEPT ![node] = "done"]
    /\ errs' = [errs EXCEPT !.buf = @ \cup {[from |-> node, err |-> Outcome(node, answer)]}]
    /\ UNCHANGED <<data, mu, req, ringState, config, healthVars>>

\* go func() { wg.Wait(); close(errs) }()
CloseErrs ==
    /\ req.pc = "collect"
    /\ ~errs.closed
    /\ \A n \in DOMAIN tasks : tasks[n] = "done"
    /\ errs' = [errs EXCEPT !.closed = TRUE]
    /\ UNCHANGED <<data, mu, req, tasks, ringState, config, healthVars>>

\* `for err := range errs`: successCount and multiErr after the whole channel
SuccessCount(buf) == Cardinality({m \in buf : m.err = "nil"})
MultiErr(buf) == {m.err : m \in {x \in buf : x.err # "nil"}}

\* a result of replicate that is the quorum test alone
QuorumResultCountOnly(successCount, multiErr, quorum) ==
    IF successCount < quorum THEN "not enough replicas for write quorum"
    ELSE "nil"

\* the end of replicate; "multiple errors" stands for the composite of multiErr
QuorumResult(successCount, multiErr, quorum) ==
    IF successCount < quorum THEN "not enough replicas for write quorum"
    ELSE IF Cardinality(multiErr) > 0 THEN "multiple errors"
    ELSE "nil"

\* a replicate that undoes a set in the local map when the quorum is not met
DecideRollback ==
    /\ req.pc = "collect"
    /\ errs.closed
    /\ req' = ReturnFromReplicate(
                [req EXCEPT !.successCount = SuccessCount(errs.buf),
                            !.multiErr = MultiErr(errs.buf)],
                QuorumResult(SuccessCount(errs.buf), MultiErr(errs.buf), writeQuorum))
    /\ errs' = [errs EXCEPT !.buf = {}]
    /\ tasks' = <<>>
    /\ data' = IF SuccessCount(errs.buf) < writeQuorum
               THEN LocalUpdate(data, "DELETE", req.key, "") ELSE data
    /\ UNCHANGED <<mu, ringState, config, healthVars>>

\* a replicate that returns as soon as one sub-request has failed
DecideOnFirstError ==
    /\ req.pc = "collect"
    /\ errs.closed \/ \E m \in errs.buf : m.err # "nil"
    /\ req' = ReturnFromReplicate(
                [req EXCEPT !.successCount = SuccessCount(errs.buf),
                            !.multiErr = MultiErr(errs.buf)],
                QuorumResult(SuccessCount(errs.buf), MultiErr(errs.buf), writeQuorum))
    /\ errs' = [errs EXCEPT !.buf = {}]
    /\ tasks' = <<>>
    /\ UNCHANGED <<data, mu, ringState, config, healthVars>>

\* the collecting loop ends when errs is closed; no one else reads what it
\* counts, so its iterations are taken as one step
Decide ==
    /\ req.pc = "collect"
    /\ errs.closed
    /\ req' = ReturnFromReplicate(
                [req EXCEPT !.successCount = SuccessCount(errs.buf),
                            !.multiErr = MultiErr(errs.buf)],
                QuorumResult(SuccessCount(errs.buf), MultiErr(errs.buf), writeQuorum))
    /\ errs' = [errs EXCEPT !.buf = {}]
    /\ tasks' = <<>>
    /\ UNCHANGED <<data, mu, ringState, config, healthVars>>

(******************************* health.go *********************************)
\* a performHealthCheck that probes the peers of the active set only
TickStartActiveOnly ==
    /\ tick = "sleep"
    /\ tick' = "running"
    /\ probes' = [i \in 1..Len(nodes) |->
                    [pc |-> IF nodes[i] \in activeNodes THEN "get" ELSE "done", vn |-> 0]]
    /\ UNCHANGED <<data, mu, req, tasks, errs, ringState, config>>

\* HealthCheck: a tick fires; performHealthCheck starts one checkNode per
\* configured peer
TickStart ==
    /\ tick = "sleep"
    /\ tick' = "running"
    /\ probes' = [i \in 1..Len(nodes) |-> [pc |-> "get", vn |-> 0]]
    /\ UNCHANGED <<data, mu, req, tasks, errs, ringState, config>>

\* a probe that takes any response for health
UnhealthyOnErrorOnly(answer) == answer.err # "nil"

\* checkNode: err != nil || resp.StatusCode != 200
Unhealthy(answer) == answer.err # "nil" \/ answer.status # 200

\* checkNode, the unhealthy branch: RemoveNode is entered: Lock,
\* delete(h.activeNodes, node). (Nothing else reads the answer, so it is taken to
\* arrive when the lock is acquired.) The healthy branch only logs and returns;
\* it is part of TickEnd.
CheckNode(i, answer) ==
    /\ tick = "running"
    /\ probes[i].pc = "get"
    /\ Unhealthy(answer)
    /\ mutex = 0
    /\ mutex' = i
    /\ activeNodes' = activeNodes \ {nodes[i]}
    /\ probes' = [probes EXCEPT ![i].pc = "removing"]
    /\ UNCHANGED <<tick, data, mu, req, tasks, errs, ring, hashMap, config>>

\* RemoveNode: one iteration of its loop; after the last one the deferred Unlock,
\* and checkNode returns (wg.Done)
RemoveNodeStep(i) ==
    /\ probes[i].pc = "removing"
    /\ LET st == RemoveNodeIter([ring |-> ring, hashMap |-> hashMap], nodes[i], probes[i].vn)
       IN  /\ ring' = st.ring
           /\ hashMap' = st.hashMap
    /\ IF probes[i].vn + 1 < VirtualNodesFactor
       THEN /\ probes' = [probes EXCEPT ![i].vn = @ + 1]
            /\ UNCHANGED mutex
       ELSE /\ probes' = [probes EXCEPT ![i].vn = 0, ![i].pc = "done"]
            /\ mutex' = 0
    /\ UNCHANGED <<tick, data, mu, req, tasks, errs, activeNodes, config>>

\* the probes whose answer is still out; "done" are those that removed their peer
Pending == {i \in DOMAIN probes : probes[i].pc = "get"}

\* performHealthCheck: wg.Wait() returns and the loop waits for the next tick.
\* The probes still out have come back healthy (answers[i] is the answer to
\* probe i): checkNode logs the peer as up and does nothing else.
TickEndWith(answers) ==
    /\ \A i \in Pending : ~Unhealthy(answers[i])
    /\ tick' = "sleep"
    /\ probes' = [i \in DOMAIN probes |-> NoProbe]
    /\ UNCHANGED <<data, mu, req, tasks, errs, ringState, config>>

\* a performHealthCheck that does not wait for its probes
TickEndNoWait ==
    /\ tick = "running"
    /\ \E answers \in [Pending -> ProbeAnswers] : TickEndWith(answers)

TickEnd ==
    /\ tick = "running"
    /\ \A i \in DOMAIN probes : probes[i].pc \in {"get", "done"}
    /\ \E answers \in [Pending -> ProbeAnswers] : TickEndWith(answers)

Next ==
    \/ \E rq \in workload : ServeHTTP(rq.method, rq.key, rq.value, rq.header, rq.bodyOk)
    \/ LocalLock
    \/ LocalWrite
    \/ ReplicateStart
    \/ WalkLen
    \/ WalkGet
    \/ \E node \in DOMAIN tasks, answer \in PeerAnswers : ReplicateNode(node, answer)
    \/ CloseErrs
    \/ Decide
    \/ TickStart
    \/ \E i \in DOMAIN probes, answer \in ProbeAnswers : CheckNode(i, answer)
    \/ \E i \in DOMAIN probes : RemoveNodeStep(i)
    \/ TickEnd

Spec == Init /\ [][Next]_vars

\* the same node on clusters of at most two peers, under a workload with two
\* keys and two values, so that a key can be overwritten and removed while
\* another one stays
WriteRequests == RequestsOver({"k", "x", ""}, {"v", "w", ""}, {"true", ""})

InitWrites ==
    \E list \in {l \in StoreNodeLists : Range(l) \subseteq {"a", "b"}} :
    \E order \in MapOrders(Range(list)) :
    \E rf \in 0..(MaxReplicationFactor - 1) :
        Started(list, order, rf, WriteRequests)

SpecWrites == InitWrites /\ [][Next]_vars

\* the same node under writes of one key that carry the header X-Replication
\* with the marking value, with other values, or not at all
HeaderRequests == RequestsOver({"k"}, {"v"}, {"true", "", "TRUE", "false"})

InitHeaders ==
    \E list \in {l \in StoreNodeLists : Range(l) \subseteq {"a", "b"}} :
    \E order \in MapOrders(Range(list)) :
    \E rf \in 0..(MaxReplicationFactor - 1) :
        Started(list, order, rf, HeaderRequests)

SpecHeaders == InitHeaders /\ [][Next]_vars

(***************************************************************************)
(* NewStore called over and over with node lists and replication factors,  *)
(* as store_test.go does; call records the arguments.                      *)
(***************************************************************************)
\* the node lists handed to NewStore: up to MaxNodes distinct peers in any order
NewStoreLists ==
    {l \in UNION {[1..n -> PeerNames] : n \in 0..MaxNodes} :
        \A i, j \in DOMAIN l : l[i] = l[j] => i = j}

InitNewStore ==
    \E list \in NewStoreLists : \E order \in MapOrders(Range(list)) :
    \E rf \in 0..MaxReplicationFactor :
        Started(list, order, rf, {})

CallNewStore(list, order, rf) ==
    LET h == NewHashRingManager(list, order)
        s == NewStore(list, rf)
    IN  /\ nodes' = h.nodes
        /\ ring' = h.ring
        /\ hashMap' = h.hashMap
        /\ activeNodes' = h.activeNodes
        /\ replicationFactor' = s.replicationFactor
        /\ readQuorum' = s.readQuorum
        /\ writeQuorum' = s.writeQuorum
        /\ probes' = [i \in 1..Len(list) |-> NoProbe]
        /\ call' = [op |-> "NewStore", nodes |-> list, replicationFactor |-> rf]
        /\ UNCHANGED <<mutex, data, mu, req, tasks, errs, workload, tick, mutations, cluster>>

NextNewStore ==
    \E list \in NewStoreLists : \E order \in MapOrders(Range(list)) :
    \E rf \in 0..MaxReplicationFactor :
        CallNewStore(list, order, rf)

SpecNewStore == InitNewStore /\ [][NextNewStore]_vars

(***************************************************************************)
(* Properties of the ring manager (checked under SpecRing).                *)
(***************************************************************************)
IsSorted(r) == \A j \in 1..(Len(r) - 1) : ~Less32(r[j + 1], r[j])
Min(x, y) == IF x < y THEN x ELSE y
\* the indexes (1-based) of the positions of the ring that hashMap gives to peer p
PositionsOf(p) == {j \in DOMAIN ring : MapGet(hashMap, ring[j]).Node = p}
\* whether every virtual-node hash of p is on the ring, or none is
AllOnRing(p) == \A vn \in 0..(VirtualNodesFactor - 1) : VNodeHash(p, vn) \in Range(ring)
NoneOnRing(p) == \A vn \in 0..(VirtualNodesFactor - 1) : VNodeHash(p, vn) \notin Range(ring)
\* the least 0-based index whose position is >= hash, on a ring that has one
LeastGeq(r, hash) ==
    CHOOSE i \in 0..(Len(r) - 1) :
        /\ Geq32(At(r, i), hash)
        /\ \A j \in 0..(i - 1) : Less32(At(r, j), hash)

\* C2: on every non-empty sorted ring GetRingIndex(h) succeeds for every hash h
\* and returns the least index i with ring[i] >= h, or index 0 without an error
\* when h is greater than every position; on an empty ring it fails with the
\* ring-empty error.
C2_GetRingIndexContract ==
    call.op = "GetRingIndex" =>
        IF Len(ring) = 0 THEN call.ret.err = "ring is empty"
        ELSE IsSorted(ring) =>
               /\ call.ret.err = "nil"
               /\ call.ret.idx = IF \E j \in DOMAIN ring : Geq32(ring[j], call.hash)
                                 THEN LeastGeq(ring, call.hash)
                                 ELSE 0

\* C6: AddNode(p) for a peer p that is already active leaves the length of the
\* ring, its positions and the active set as they were.
C6_AddNodeIdempotent ==
    (call.op = "AddNode" /\ call.node \in call.before.activeNodes) =>
        /\ Len(ring) = Len(call.before.ring)
        /\ ring = call.before.ring
        /\ activeNodes = call.before.activeNodes

\* C7: after construction and after any sequence of AddNode/RemoveNode calls the
\* ring holds exactly V positions of every active peer, its length is V times
\* the number of active peers, and after RemoveNode(p) it holds no position of p.
C7_PositionsPerPeer ==
    /\ \A p \in activeNodes : Cardinality(PositionsOf(p)) = VirtualNodesFactor
    /\ Len(ring) = VirtualNodesFactor * Cardinality(activeNodes)
    /\ call.op = "RemoveNode" => (PositionsOf(call.node) = {} /\ NoneOnRing(call.node))

\* no position stands twice on the ring
NoDuplicates(r) == \A i, j \in DOMAIN r : r[i] = r[j] => i = j

\* C8: the ring is sorted in ascending order in every reachable state: after
\* construction, after every AddNode and after every RemoveNode. (Stated of the
\* rings without a repeated position, which leaves aside the AddNode of a peer
\* that is already active, the case of C6.)
C8_RingSorted == NoDuplicates(ring) => IsSorted(ring)

\* C9: whenever the ring is not empty, the lookup of every key succeeds and the
\* peer at the slot it returns is an active peer (not a removed peer, not the
\* empty owner).
C9_LookupResolvesToActivePeer ==
    Len(ring) > 0 =>
        \A k \in KeyNames :
            LET found == GetRingIndex(ring, HashStr(k))
            IN  /\ found.err = "nil"
                /\ GetNodeMapForRingIndex(ring, hashMap, found.idx).err = "nil"
                /\ GetNodeMapForRingIndex(ring, hashMap, found.idx).nodeMap.Node \in activeNodes

(***************************************************************************)
(* Properties of the node (checked under Spec).                            *)
(***************************************************************************)
\* C1: when the probe of a configured peer comes back healthy (status 200), the
\* peer is in the ring after the tick (it is active and its V positions are on
\* the ring), also when it had been removed before.
C1_HealthyPeerIsBackAfterTick ==
    [][(tick = "running" /\ tick' = "sleep") =>
        \A answers \in [Pending -> ProbeAnswers] :
            TickEndWith(answers) =>
                \A i \in Pending :
                    (answers[i].err = "nil" /\ answers[i].status = 200) =>
                        /\ HasNode(activeNodes', nodes[i])
                        /\ \A vn \in 0..(VirtualNodesFactor - 1) :
                                \E j \in DOMAIN ring' : ring'[j] = VNodeHash(nodes[i], vn)]_vars

\* a write that went through validation and started sub-requests
FannedOut == req.pc = "done" /\ req.method \in {"PUT", "DELETE"} /\ req.selectedNodes # {}

\* C3: a client-origin set/delete that fans out returns success if and only if
\* the number of selected peers that acked is at least writeQuorum.
C3_SuccessIffQuorum ==
    (FannedOut /\ ~SkipReplication(req.header) /\ replicationFactor > 0) =>
        (req.err = "nil" <=> req.successCount >= writeQuorum)

\* C4: the walk of replicate over a non-empty ring ends after at most one visit
\* of each position, also when fewer than R distinct peers are on the ring, and
\* it has then started exactly min(R, number of distinct peers on the ring)
\* sub-requests. (The second part is stated of the walk that has just ended, on
\* a ring that is as it was when the walk began.)
C4_WalkTerminates ==
    /\ req.pc \in {"walkLen", "walkGet"} => req.steps <= req.len0
    /\ (req.pc = "collect" /\ Owners(ring, hashMap) = req.peers0 /\ mutex = 0) =>
          Cardinality(req.selectedNodes) = Min(replicationFactor, Cardinality(req.peers0))

\* a PUT or DELETE that arrived marked X-Replication: true
IsEcho == req.pc # "idle" /\ req.method \in {"PUT", "DELETE"}
            /\ req.header = ReplicationHeaderValue

\* C5: a PUT or DELETE marked X-Replication: true starts no sub-request and, when
\* it is valid, is applied to the local map and answered with success; no write
\* ever has more than replicationFactor sub-requests.
C5_NoFanOutOnEcho ==
    /\ IsEcho => (tasks = <<>> /\ req.selectedNodes = {}
                    /\ req.pc \in {"serve", "local", "locked", "done"})
    /\ (IsEcho /\ req.pc = "done"
            /\ ValidationError(req.method, req.key, req.value) = "nil") =>
          /\ req.err = "nil"
          /\ req.status \in {200, 201}
          /\ IF req.method = "PUT"
             THEN Get(data, req.key) = [val |-> req.value, ok |-> TRUE]
             ELSE ~Get(data, req.key).ok
    /\ Cardinality(DOMAIN tasks) <= replicationFactor

\* the echo of a PUT was served by a node that has peers to replicate to
C5_Witness ==
    /\ IsEcho /\ req.pc = "done" /\ req.method = "PUT" /\ req.status = 201
    /\ replicationFactor > 0 /\ Len(ring) > 0
    /\ Get(data, req.key).ok

\* the literal reading of an answer: a transport error, a timeout, or a status
\* other than 200
BadAnswer(answer) == answer.err # "nil" \/ answer.status # 200

\* C10: a probe is unhealthy exactly when it ended in a transport error or a
\* timeout or brought a status other than 200 (checkNode removes the peer for
\* these answers and for no other, and a tick ends with the other answers only);
\* a peer whose probe was unhealthy is, from the return of its checkNode to the
\* end of the tick, not active and none of its positions is on the ring.
C10_UnhealthyPeerRemoved ==
    /\ [](\A i \in DOMAIN probes :
            probes[i].pc = "done" =>
                /\ ~HasNode(activeNodes, nodes[i])
                /\ NoneOnRing(nodes[i])
                /\ PositionsOf(nodes[i]) = {})
    /\ [][\A i \in DOMAIN probes :
            (probes[i].pc = "get" /\ probes'[i].pc = "removing") =>
                \A answer \in ProbeAnswers : CheckNode(i, answer) => BadAnswer(answer)]_vars
    /\ [][(tick = "running" /\ tick' = "sleep") =>
            /\ \A answers \in [Pending -> ProbeAnswers] :
                    TickEndWith(answers) => \A i \in Pending : ~BadAnswer(answers[i])
            /\ \A i \in DOMAIN probes \ Pending : ~HasNode(activeNodes', nodes[i])]_vars

\* a tick in which some probe was unhealthy can end: that probe has removed its
\* peer, the other peers are still on the ring
C10_Witness ==
    /\ tick = "running"
    /\ \A i \in DOMAIN probes : probes[i].pc \in {"get", "done"}
    /\ \E i \in DOMAIN probes : probes[i].pc = "done" /\ ~HasNode(activeNodes, nodes[i])
    /\ Len(ring) > 0

(***************************************************************************)
(* The local map: Get, Set and Delete of one node.                         *)
(***************************************************************************)
\* a write that came as a replication echo has returned without an error
EchoDone(method) ==
    /\ req.pc = "done" /\ req.method = method /\ req.header = ReplicationHeaderValue
    /\ req.err = "nil"

\* C11: once set(k, v, true) has returned for non-empty k and v, the next
\* get(k) returns (v, true), whatever was set for k before: the value of the
\* most recent set is the one read.
C11_ReadAfterWrite ==
    [][(EchoDone("PUT") /\ req'.method = "GET" /\ req'.key = req.key /\ req' # req)
         => (req'.pc = "done" /\ req'.status = 200 /\ req'.got = req.value)]_vars

\* a set of "w" over another value of the key "k" has returned, and is read
C11_Witness ==
    /\ EchoDone("PUT") /\ req.key = "k" /\ req.value = "w" /\ req.exists
    /\ req.status = 200
    /\ Get(data, "k") = [val |-> "w", ok |-> TRUE]

\* a delete of a non-empty key that came as a replication echo
DeleteEcho ==
    req.method = "DELETE" /\ req.header = ReplicationHeaderValue /\ req.key # ""

\* C12: delete(k, true) returns without an error and leaves k absent, whether k
\* was present or not: on a missing key it changes nothing and still succeeds,
\* and a get of k that follows finds nothing.
C12_DeleteRoundTrip ==
    /\ []((req.pc = "done" /\ DeleteEcho)
            => (req.err = "nil" /\ req.status = 200 /\ ~Get(data, req.key).ok))
    /\ [][(req.pc = "locked" /\ DeleteEcho /\ ~Get(data, req.key).ok /\ req' # req)
            => (req'.pc = "done" /\ req'.err = "nil" /\ data' = data)]_vars
    /\ [][(req.pc = "done" /\ DeleteEcho /\ req'.method = "GET" /\ req'.key = req.key
             /\ req' # req)
            => (req'.status = 404 /\ req'.got = "")]_vars

\* a delete of "k" has returned on a map that still holds the other key
C12_Witness ==
    /\ req.pc = "done" /\ DeleteEcho /\ req.key = "k" /\ req.status = 200
    /\ ~Get(data, "k").ok
    /\ Get(data, "x").ok

(***************************************************************************)
(* Validation, configuration and the order of the local update and the     *)
(* fan-out.                                                                *)
(***************************************************************************)
\* Set was called with an empty key or value, or Delete with an empty key (a
\* PUT whose body could not be read never reaches Set)
EmptyInput ==
    /\ req.pc # "idle" /\ req.method \in {"PUT", "DELETE"}
    /\ req.err # "Invalid request body"
    /\ (req.key = "" \/ (req.method = "PUT" /\ req.value = ""))

\* C13: a set with an empty key or value and a delete with an empty key return
\* the empty-input error at once, with or without the replication marker: the
\* local map stays as it was and no peer is selected or sent a request.
C13_EmptyInputRejected ==
    /\ [](EmptyInput
            => (/\ req.pc = "done"
                /\ req.err = (IF req.method = "PUT" THEN "key or value cannot be empty"
                               ELSE "key cannot be empty")
                /\ req.status = 500
                /\ req.selectedNodes = {} /\ tasks = <<>> /\ errs.buf = {}))
    /\ [][(req' # req /\ req'.pc = "done" /\ req'.status = 500 /\ req'.selectedNodes = {}
             /\ req'.err \in {"key or value cannot be empty", "key cannot be empty"})
            => data' = data]_vars

\* a client's set of an empty value was rejected on a node that holds data and
\* would have replicated the write to a peer on its ring
C13_Witness ==
    /\ EmptyInput /\ req.method = "PUT" /\ req.key = "k" /\ req.value = ""
    /\ req.header = "" /\ req.err = "key or value cannot be empty"
    /\ replicationFactor > 0 /\ "a" \in Owners(ring, hashMap)
    /\ Get(data, "k").ok

\* a client's valid set or delete has returned after a fan-out in which every
\* selected peer acked
AllSelectedAcked ==
    /\ req.pc = "done" /\ req.method \in {"PUT", "DELETE"} /\ ~req.skip
    /\ req.selectedNodes # {}
    /\ req.successCount = Cardinality(req.selectedNodes)
    /\ req.multiErr = {}

\* C14: with N >= 2 configured peers and 1 <= R <= N, a client-origin set or
\* delete whose selected replica peers all acked returns without an error.
C14_AllAcksSucceed ==
    (/\ Len(nodes) >= 2
     /\ 1 <= replicationFactor /\ replicationFactor <= Len(nodes)
     /\ AllSelectedAcked)
        => req.err = "nil"

\* C15: NewStore(nodes, R) with N = len(nodes) sets writeQuorum = readQuorum =
\* floor(N/2) + 1, the least number above N/2 (1 for N = 1, 2 for N = 2 and for
\* N = 3); it forces the replication factor to 0 for N = 1 and keeps the R it
\* was handed for N > 1.
C15_NewStoreQuorums ==
    call.op = "NewStore" =>
        LET N == Len(call.nodes)
        IN  /\ nodes = call.nodes
            /\ readQuorum = writeQuorum
            /\ 2 * writeQuorum > N /\ 2 * (writeQuorum - 1) <= N
            /\ (N = 1 => writeQuorum = 1)
            /\ (N \in {2, 3} => writeQuorum = 2)
            /\ (N = 1 => replicationFactor = 0)
            /\ (N > 1 => replicationFactor = call.replicationFactor)

\* NewStore was handed one node and a replication factor of 2
C15_Witness ==
    /\ call.op = "NewStore" /\ Len(call.nodes) = 1 /\ call.replicationFactor = 2
    /\ replicationFactor = 0 /\ writeQuorum = 1 /\ readQuorum = 1

\* Set or Delete was called with valid arguments
ValidWrite ==
    /\ req.pc # "idle" /\ req.method \in {"PUT", "DELETE"}
    /\ req.err # "Invalid request body"
    /\ req.key # "" /\ (req.method = "PUT" => req.value # "")

\* C16: on a cluster of one configured peer every valid set and delete, from a
\* client or a peer, is local only: it selects no peer and starts no request,
\* never enters the walk of the ring, and returns success with the local map
\* updated, also when the health monitor has taken the peer off the ring.
C16_SingleNodeLocalOnly ==
    (Len(nodes) = 1 /\ ValidWrite) =>
        /\ replicationFactor = 0
        /\ req.pc \in {"local", "locked", "replicate", "done"}
        /\ req.selectedNodes = {} /\ tasks = <<>> /\ errs.buf = {}
        /\ req.pc = "done" =>
             /\ req.err = "nil"
             /\ req.status = (IF req.method = "PUT" /\ ~req.exists THEN 201 ELSE 200)
             /\ Get(data, req.key) = (IF req.method = "PUT"
                                      THEN [val |-> req.value, ok |-> TRUE]
                                      ELSE [val |-> "", ok |-> FALSE])

\* a client's set has succeeded on a single-peer node whose ring is empty
C16_Witness ==
    /\ Len(nodes) = 1 /\ ring = <<>> /\ activeNodes = {}
    /\ ValidWrite /\ req.pc = "done" /\ req.method = "PUT" /\ req.header = ""
    /\ req.err = "nil" /\ req.status = 201

\* C17: with an empty configured peer list the health monitor has no probe to
\* launch and leaves the (empty) ring as it is, and a client's set or delete
\* with R > 0 fails at the lookup of the primary with the ring-empty error:
\* no peer is selected and no request is started.
C17_EmptyPeerList ==
    Len(nodes) = 0 =>
        /\ probes = <<>> /\ ring = <<>> /\ activeNodes = {} /\ mutex = 0
        /\ (ValidWrite /\ ~req.skip /\ replicationFactor > 0) =>
             /\ req.pc \in {"local", "locked", "replicate", "done"}
             /\ req.selectedNodes = {} /\ tasks = <<>> /\ errs.buf = {}
             /\ req.pc = "done" =>
                  /\ req.err = "failed to set value with replication: ring is empty"
                  /\ req.status = 500

\* during a tick of the health monitor of a node without peers, a client's set
\* has failed with the ring-empty error
C17_Witness ==
    /\ Len(nodes) = 0 /\ replicationFactor = 2 /\ tick = "running"
    /\ ValidWrite /\ req.pc = "done" /\ req.method = "PUT" /\ req.header = ""
    /\ req.err = "failed to set value with replication: ring is empty"

\* a replication request of the write being served is in flight
InFlight == \E n \in DOMAIN tasks : tasks[n] = "running"

\* C18: Store.mu is never held exclusively while a replication request is in
\* flight: Set and Delete hold it for the update of the local map only and
\* release it, with the update made, before handleReplication selects a peer.
C18_LockReleasedBeforeFanOut ==
    /\ [](mu => (req.pc = "locked" /\ ~InFlight /\ tasks = <<>> /\ req.selectedNodes = {}))
    /\ [](InFlight => ~mu)
    /\ [][(mu /\ ~mu')
            => (/\ Get(data', req.key) = (IF req.method = "PUT"
                                          THEN [val |-> req.value, ok |-> TRUE]
                                          ELSE [val |-> "", ok |-> FALSE])
                /\ req'.pc \in {"replicate", "done"}
                /\ tasks' = <<>>)]_vars

\* the requests of a client's set are in flight, the local map holds the new
\* value and the lock is free
C18_Witness ==
    /\ InFlight /\ ~mu /\ req.pc = "collect" /\ req.method = "PUT"
    /\ Cardinality(DOMAIN tasks) = 2
    /\ Get(data, req.key) = [val |-> req.value, ok |-> TRUE]

\* what a get of the key of the write being served returns once the write is
\* applied
Applied ==
    Get(data, req.key) = (IF req.method = "PUT" THEN [val |-> req.value, ok |-> TRUE]
                          ELSE [val |-> "", ok |-> FALSE])

\* C19: a client's write is applied to the local map before a peer is selected
\* or sent a request and is never undone: the map holds it during the fan-out,
\* before any ack, and after the write has returned, also with the quorum
\* error; the map changes by the update of a Set or Delete only, so a node
\* that acked an echo holds the value too.
C19_LocalWriteNotRolledBack ==
    /\ []((ValidWrite /\ req.pc \notin {"local", "locked"}) => Applied)
    /\ []((ValidWrite /\ req.pc \in {"local", "locked"})
            => (tasks = <<>> /\ req.selectedNodes = {}))
    /\ [][data' # data
            => (/\ req.pc = "locked"
                /\ data' = [x \in IF req.method = "PUT" THEN (DOMAIN data) \cup {req.key}
                                  ELSE (DOMAIN data) \ {req.key} |->
                              IF x = req.key THEN req.value ELSE data[x]])]_vars

\* a client's set has returned the quorum error and the local map holds its
\* value
C19_Witness ==
    /\ ValidWrite /\ req.pc = "done" /\ req.method = "PUT" /\ ~req.skip
    /\ req.err = "failed to set value with replication: not enough replicas for write quorum"
    /\ req.successCount = 1 /\ Cardinality(req.selectedNodes) = 2
    /\ Get(data, "k") = [val |-> "v", ok |-> TRUE]

\* C20: when a set or delete has returned, on whatever path, every
\* replicateNode goroutine its fan-out started has completed.
C20_SubTasksJoinedOnReturn ==
    (req.pc = "done" /\ req.method \in {"PUT", "DELETE"}) => ~InFlight

(***************************************************************************)
(* Readers of the ring, its owners and its active set.                     *)
(***************************************************************************)
\* every peer is on the ring with all its positions or with none, and every
\* position has an owner entry
RingSnapshot ==
    /\ \A p \in PeerNames : AllOnRing(p) \/ NoneOnRing(p)
    /\ \A j \in DOMAIN ring : ring[j] \in DOMAIN hashMap

\* C21: every query of the ring made for a write (GetRingIndex, Len,
\* GetNodeMapForRingIndex) is atomic with respect to AddNode and RemoveNode:
\* it reads a ring on which every peer has all of its positions or none and
\* every position has its owner entry.
C21_ReadersSeeSnapshot ==
    [][(req.pc \in {"replicate", "walkLen", "walkGet"} /\ req' # req
          /\ replicationFactor > 0)
         => RingSnapshot]_vars

\* C22: RemoveNode(p) for a peer p that is not in the active set leaves the
\* ring, the owners and the active set as they were, also when a position of p
\* is the position of an active peer.
C22_RemoveAbsentPeerIsNoOp ==
    (call.op = "RemoveNode" /\ call.node \notin call.before.activeNodes) =>
        /\ ring = call.before.ring
        /\ hashMap = call.before.hashMap
        /\ activeNodes = call.before.activeNodes

(***************************************************************************)
(* Errors, the replication marker, the health monitor and the adapter.     *)
(***************************************************************************)
\* on a node that asks at least writeQuorum peers, a client's write got an
\* answer from each selected peer, at least one of them a failure, and fewer
\* acks than writeQuorum
QuorumNotMet ==
    /\ FannedOut /\ ~req.skip /\ replicationFactor >= writeQuorum
    /\ req.successCount + Cardinality(req.multiErr) = Cardinality(req.selectedNodes)
    /\ req.multiErr # {}
    /\ req.successCount < writeQuorum

\* C23: when a fan-out does not reach the write quorum, the error set/delete
\* returns is the composite of the sub-errors, one for each selected peer that
\* failed.
C23_QuorumErrorIsComposite ==
    QuorumNotMet => req.err = WrapReplicationError("multiple errors")

\* C24: a valid set or delete whose X-Replication header is anything but the
\* exact value "true" is a client's: on a node with R > 0 it goes on to
\* replicate after the local update, and an error of the replication (a failed
\* lookup, a missed quorum, a failed peer) is returned and answered with 500;
\* with the exact value "true" no peer is selected.
C24_OnlyExactMarkerSkipsFanOut ==
    /\ []((ValidWrite /\ req.header = "true")
            => (req.pc \in {"local", "locked", "done"} /\ req.selectedNodes = {}
                  /\ tasks = <<>>))
    /\ [][(req.pc = "locked" /\ req' # req /\ req.header # "true")
            => (req'.pc = "replicate" /\ Get(data', req.key).ok = (req.method = "PUT"))]_vars
    /\ []((ValidWrite /\ req.header # "true" /\ replicationFactor > 0 /\ req.pc = "done")
            => (/\ req.err = "nil" => (req.selectedNodes # {} /\ req.status \in {200, 201})
                /\ req.err # "nil" => req.status = 500
                /\ (req.multiErr # {} \/ req.selectedNodes = {}) => req.err # "nil"))

\* a client's set carrying X-Replication: TRUE was replicated, a peer failed and
\* the adapter answered 500
C24_Witness ==
    /\ ValidWrite /\ req.pc = "done" /\ req.method = "PUT" /\ req.header = "TRUE"
    /\ req.selectedNodes = {"a", "b"} /\ req.multiErr # {}
    /\ req.err # "nil" /\ req.status = 500

\* C25: the health monitor changes neither the configured peer list nor the
\* local map: every tick probes every peer of the list the node was started
\* with, also a peer it has removed from the ring.
C25_MonitorKeepsConfiguredList ==
    /\ [](DOMAIN probes = 1..Len(nodes))
    /\ [][nodes' = nodes]_vars
    /\ [][(tick' # tick \/ probes' # probes) => data' = data]_vars
    /\ [][(tick = "sleep" /\ tick' = "running")
            => \A i \in 1..Len(nodes) : probes'[i].pc = "get"]_vars

\* a tick is probing a peer that an earlier tick removed from the ring, on a
\* node that holds data
C25_Witness ==
    /\ tick = "running" /\ data # <<>>
    /\ \E i \in DOMAIN probes :
         /\ probes[i].pc = "get"
         /\ nodes[i] \notin activeNodes /\ NoneOnRing(nodes[i])

\* the adapter takes up a request
Served == req' # req /\ req.pc \in {"idle", "done", "panic"}

\* C26: the status the adapter answers with, over sequences of requests: a PUT
\* that succeeds is answered 201 when the key was absent when the request
\* came in and 200 when it was present; a GET is answered 200 with the stored
\* value for a present key and 404 for an absent one; a DELETE that succeeds
\* is answered 200; any other method is answered 405 and changes nothing.
C26_StatusCodes ==
    /\ [][(Served /\ req'.method = "PUT") => req'.exists = (req'.key \in DOMAIN data)]_vars
    /\ []((ValidWrite /\ req.pc = "done" /\ req.err = "nil")
            => req.status = (IF req.method = "PUT" /\ ~req.exists THEN 201 ELSE 200))
    /\ [][(Served /\ req'.method = "GET")
            => (/\ req'.pc = "done" /\ data' = data
                /\ IF req'.key \in DOMAIN data
                   THEN req'.status = 200 /\ req'.got = data[req'.key]
                   ELSE req'.status = 404)]_vars
    /\ [][(Served /\ req'.method \notin {"GET", "PUT", "DELETE"})
            => (/\ req'.pc = "done" /\ req'.status = 405
                /\ UNCHANGED <<data, mu, ringState, config, healthVars>>)]_vars

\* a client's set of a key the map did not hold was answered 201 on a node
\* that holds the other key
C26_Witness ==
    /\ ValidWrite /\ req.pc = "done" /\ req.method = "PUT" /\ req.key = "k"
    /\ ~req.exists /\ req.err = "nil" /\ req.status = 201
    /\ Get(data, "x").ok /\ Get(data, "k").ok

\* replicate is in its loop or collecting
Walking == req.pc \in {"walkLen", "walkGet", "collect"}

\* C27: the sub-requests of one client's write go to pairwise distinct peers
\* and are at most R: each sub-request the walk starts goes to a peer that was
\* not selected before, so their number is the number of selected peers, also
\* where consecutive slots of the ring belong to one peer.
C27_DistinctPeersAtMostR ==
    /\ [](Walking
            => (/\ req.i = Cardinality(req.selectedNodes)
                /\ DOMAIN tasks = req.selectedNodes
                /\ req.i <= replicationFactor))
    /\ [][(Walking /\ Walking' /\ req'.i # req.i)
            => \E node \in (DOMAIN tasks') \ req.selectedNodes :
                 /\ req'.i = req.i + 1
                 /\ req'.selectedNodes = req.selectedNodes \cup {node}
                 /\ tasks'[node] = "running"]_vars

\* the walk for the key "k" took a, passed the next slot, which is a's too, and
\* took b
C27_Witness ==
    /\ req.pc = "collect" /\ req.key = "k" /\ req.selectedNodes = {"a", "b"}
    /\ req.i = 2 /\ req.steps = 3

(***************************************************************************)
(* Owners and collisions (checked under SpecRing and SpecColliding).       *)
(***************************************************************************)
\* the owner entry of the position at slot j names a virtual node that hashes
\* to that position
OwnerAgrees(j) ==
    /\ ring[j] \in DOMAIN hashMap
    /\ LET owner == hashMap[ring[j]]
       IN  /\ owner.Node \in PeerNames \cup CollidingNames
           /\ owner.VirtualNodeID \in 0..(VirtualNodesFactor - 1)
           /\ VNodeHash(owner.Node, owner.VirtualNodeID) = ring[j]

\* C28: in every reachable state of the ring each position has an owner entry
\* (peer, virtualIndex) with 0 <= virtualIndex < V and hash("peer#virtualIndex")
\* equal to the position, for peers placed by the constructor and by AddNode.
C28_PositionsAndOwnersAgree == \A j \in DOMAIN ring : OwnerAgrees(j)

\* C29: the active set and the ring agree in every reachable state: a peer is
\* active if and only if the ring holds positions it owns, and the positions on
\* the ring are the V hashed positions of the active peers and no others.
C29_ActiveSetAndRingAgree ==
    /\ \A p \in PeerNames : HasNode(activeNodes, p) <=> PositionsOf(p) # {}
    /\ Range(ring) = {VNodeHash(p, vn) : p \in activeNodes, vn \in 0..(VirtualNodesFactor - 1)}

\* C30: when virtual nodes of two peers hash to one position, AddNode of the
\* second peer keeps both positions on the ring and leaves the owner recorded
\* for the position as it was (the virtual node inserted first), and
\* RemoveNode of one of the peers leaves no position of the ring without an
\* owner.
C30_CollisionKeepsFirstOwner ==
    /\ (call.op = "AddNode" /\ call.node \notin call.before.activeNodes) =>
         /\ Len(ring) = Len(call.before.ring) + VirtualNodesFactor
         /\ \A h \in DOMAIN call.before.hashMap :
              h \in DOMAIN hashMap /\ hashMap[h] = call.before.hashMap[h]
    /\ call.op = "RemoveNode" => \A j \in DOMAIN ring : ring[j] \in DOMAIN hashMap

(***************************************************************************)
(* Writes after a removal, health ticks, outcome accounting.               *)
(***************************************************************************)
\* the configured peers the health monitor has removed from the ring
RemovedPeers == {p \in Range(nodes) : p \notin activeNodes /\ NoneOnRing(p)}

\* the node after a health tick that found peer p unhealthy and removed it,
\* before the next request: NewStore(list, rf), then performHealthCheck with
\* RemoveNode(p)
InitAfterRemoval ==
    \E list \in {l \in StoreNodeLists : Range(l) \subseteq {"a", "b"}} :
    \E order \in MapOrders(Range(list)) :
    \E rf \in 0..(MaxReplicationFactor - 1) :
    \E p \in Range(list) :
        LET h == NewHashRingManager(list, order)
            s == NewStore(list, rf)
            removed == RemoveNode(h.ring, h.hashMap, h.activeNodes, p)
        IN  /\ nodes = h.nodes
            /\ ring = removed.ring
            /\ hashMap = removed.hashMap
            /\ activeNodes = removed.activeNodes
            /\ mutex = 0
            /\ replicationFactor = s.replicationFactor
            /\ readQuorum = s.readQuorum
            /\ writeQuorum = s.writeQuorum
            /\ data = <<>>
            /\ mu = FALSE
            /\ req = IdleReq
            /\ tasks = <<>>
            /\ errs = [buf |-> {}, closed |-> FALSE]
            /\ workload = BasicRequests
            /\ cluster = NoCluster
            /\ tick = "sleep"
            /\ probes = [i \in 1..Len(list) |-> NoProbe]
            /\ call = NoCall
            /\ mutations = 0

SpecAfterRemoval == InitAfterRemoval /\ [][Next]_vars

\* part of C31: the walk of a write whose lookup found the ring without peer B
\* starts no sub-request for B
C31_NoSubRequestToRemoved ==
    \A p \in Range(nodes) :
        (Walking /\ p \notin req.peers0 /\ p \in RemovedPeers)
            => (p \notin req.selectedNodes /\ p \notin DOMAIN tasks)

\* a write whose walk started after b was removed has selected a and c
C31_NoSubRequestWitness ==
    /\ req.pc = "collect" /\ "b" \in RemovedPeers /\ "b" \notin req.peers0
    /\ req.selectedNodes = {"a", "c"}

\* C31: a client's write that starts after the health monitor has removed
\* peer B from the ring sends no sub-request to B, and when other peers remain
\* on the ring it selects the next distinct peers on the ring instead: its
\* lookup succeeds and its walk starts. (Under SpecAfterRemoval every write
\* starts after a removal.)
C31_WritesSkipRemovedPeer ==
    /\ [](C31_NoSubRequestToRemoved)
    /\ [][(/\ req.pc = "replicate" /\ req'.pc # "replicate"
           /\ replicationFactor > 0
           /\ mutex = 0
           /\ RemovedPeers # {}
           /\ Owners(ring, hashMap) # {})
            => req'.pc = "walkLen"]_vars

\* C32: health ticks do not overlap: a tick starts one probe per configured
\* peer, and the monitor goes back to waiting for the next tick (whose probes
\* it then starts) only when every probe of the current tick has returned:
\* no probe is inside RemoveNode, the lock of the ring is free, and the peers
\* of the probes that removed are off the ring and out of the active set.
C32_TicksDoNotOverlap ==
    /\ [](tick = "sleep" => (mutex = 0 /\ \A i \in DOMAIN probes : probes[i] = NoProbe))
    /\ [][(tick = "sleep" /\ tick' = "running")
            => (/\ DOMAIN probes' = 1..Len(nodes)
                /\ \A i \in DOMAIN probes' : probes'[i] = [pc |-> "get", vn |-> 0])]_vars
    /\ [][(tick = "running" /\ tick' = "sleep")
            => (/\ mutex = 0
                /\ \A i \in DOMAIN probes :
                     \/ probes[i].pc = "get"
                     \/ probes[i].pc = "done" /\ nodes[i] \in RemovedPeers)]_vars

\* the second tick has started its three probes after the first one removed a
C32_Witness ==
    /\ tick = "running" /\ Len(nodes) = 3 /\ "a" \in RemovedPeers
    /\ \A i \in DOMAIN probes : probes[i].pc = "get"

\* the outcome of the sub-request to peer n has been sent
OutcomeSent(n) == \E m \in errs.buf : m.from = n

\* C33: failures are collected, not propagated eagerly: while replicate
\* collects, every selected peer's sub-request is running or has sent its
\* outcome; an outcome, failure or ack, changes no other sub-request and leaves
\* replicate collecting; and replicate evaluates the quorum only when every
\* sub-request it started has sent its outcome.
C33_FailuresAreCollected ==
    /\ [](req.pc = "collect"
            => \A n \in req.selectedNodes :
                 /\ n \in DOMAIN tasks
                 /\ (tasks[n] = "running" \/ OutcomeSent(n)))
    /\ [][(req.pc = "collect" /\ req' = req /\ errs'.buf # errs.buf)
            => \E node \in DOMAIN tasks :
                 /\ tasks[node] = "running"
                 /\ tasks' = [tasks EXCEPT ![node] = "done"]
                 /\ errs'.closed = errs.closed]_vars
    /\ [][(req.pc = "collect" /\ req' # req)
            => (/\ req'.pc = "done"
                /\ \A n \in req.selectedNodes : OutcomeSent(n)
                /\ Cardinality(errs.buf) = Cardinality(req.selectedNodes))]_vars

\* the sub-request to one peer failed, the one to the other peer was acked, and
\* replicate returned after both
C33_Witness ==
    /\ req.pc = "done" /\ req.selectedNodes = {"a", "b"}
    /\ req.successCount = 1 /\ Cardinality(req.multiErr) = 1

\* part of C35: the walk never takes a remainder by a ring length of 0
C35_NoRemainderByZero == [][(req.pc = "walkLen" /\ req' # req) => RingLen(ring) # 0]_vars

\* part of C35: the walk never passes an index outside the ring
C35_IndexInRange ==
    [][(req.pc = "walkGet" /\ req' # req) => req.index \in 0..(RingLen(ring) - 1)]_vars

\* C35: the replica walk is safe against removals by the health monitor: in
\* every interleaving of a client's write with RemoveNode calls the walk never
\* takes (idx + i) modulo a ring length of 0 and never passes an index outside
\* the ring to GetNodeMapForRingIndex.
C35_WalkSafeAgainstRemovals ==
    /\ [](req.pc # "panic")
    /\ C35_NoRemainderByZero
    /\ C35_IndexInRange

\* a set or delete from a client has returned
ClientWriteDone == req.pc = "done" /\ req.method \in {"PUT", "DELETE"} /\ ~req.skip

\* C36: when a client's set or delete returns success, every selected replica
\* peer, all R of them and not merely a quorum, has acked: replicate returns
\* nil only with R peers selected and an ack from each of them on the channel;
\* and a node acks an echo only with the mutation applied to its local map.
C36_SuccessMeansAllAcked ==
    /\ [][(req.pc = "collect" /\ req'.pc = "done" /\ req'.err = "nil")
            => (/\ Cardinality(req.selectedNodes) = replicationFactor
                /\ \A n \in req.selectedNodes : [from |-> n, err |-> "nil"] \in errs.buf)]_vars
    /\ []((ClientWriteDone /\ req.err = "nil")
            => (/\ Cardinality(req.selectedNodes) = replicationFactor
                /\ req.successCount = replicationFactor
                /\ req.multiErr = {}))
    /\ []((req.pc = "done" /\ req.method \in {"PUT", "DELETE"} /\ req.skip /\ req.status < 400)
            => Applied)

\* a client's set with R = 3 on three peers has returned success: a, b and c
\* have acked
C36_Witness ==
    /\ ClientWriteDone /\ req.err = "nil" /\ replicationFactor = 3
    /\ req.selectedNodes = {"a", "b", "c"} /\ req.successCount = 3

\* C37: get changes no state and starts no outbound request; set(k, ..) and
\* delete(k, ..) change at most the entry of the key k in the local map; and
\* no step of a get, set or delete changes the ring, the owner map, the
\* active set, the configured peers, the replication factor or the quorums.
C37_FrameOfStoreOperations ==
    /\ [][(Served /\ req'.method = "GET")
            => (/\ req'.pc = "done"
                /\ tasks' = <<>>
                /\ UNCHANGED <<data, mu, ringState, config, healthVars>>)]_vars
    /\ [][data' # data
            => (/\ req.method \in {"PUT", "DELETE"}
                /\ req' # req
                /\ \A x \in ((DOMAIN data) \cup (DOMAIN data')) \ {req.key} :
                     /\ x \in DOMAIN data
                     /\ x \in DOMAIN data'
                     /\ data'[x] = data[x])]_vars
    /\ [][(req' # req \/ data' # data \/ tasks' # tasks \/ errs' # errs)
            => UNCHANGED <<ring, hashMap, activeNodes, nodes, replicationFactor,
                           readQuorum, writeQuorum>>]_vars

\* a delete of the key "k" has returned on a node that holds the key "x"
C37_Witness ==
    /\ req.pc = "done" /\ req.method = "DELETE" /\ req.key = "k" /\ req.err = "nil"
    /\ Get(data, "x").ok /\ ~Get(data, "k").ok

\* the outcomes the sub-request to peer n has sent
OutcomesOf(n) == {m \in errs.buf : m.from = n}

\* C38: the accounting of a fan-out: a sub-request that has finished has sent
\* exactly one outcome and one that is running none; the channel never holds
\* more than its capacity R, so no sender blocks; the channel is closed only
\* with every sender finished, and nothing is sent after that; and when
\* replicate leaves the collecting loop, acks plus collected errors are the
\* number of selected peers.
C38_OutcomeAccounting ==
    /\ [](req.pc = "collect"
            => \A n \in DOMAIN tasks :
                 Cardinality(OutcomesOf(n)) = (IF tasks[n] = "done" THEN 1 ELSE 0))
    /\ [](Cardinality(errs.buf) <= replicationFactor)
    /\ [](errs.closed => \A n \in DOMAIN tasks : tasks[n] = "done")
    /\ [][(errs.closed /\ errs'.closed) => errs'.buf \subseteq errs.buf]_vars
    /\ [][(req.pc = "collect" /\ req'.pc = "done")
            => (/\ errs.closed
                /\ req'.successCount + Cardinality(req'.multiErr)
                     = Cardinality(req.selectedNodes)
                /\ req'.successCount
                     = Cardinality({n \in req.selectedNodes : [from |-> n, err |-> "nil"] \in errs.buf}))]_vars

\* a fan-out to three peers has been collected: two acks and one error
C38_Witness ==
    /\ req.pc = "done" /\ replicationFactor = 3 /\ Cardinality(req.selectedNodes) = 3
    /\ req.successCount = 2 /\ Cardinality(req.multiErr) = 1

(***************************************************************************)
(* A cluster: three nodes, each started with the list of the other two    *)
(* (the -nodes flag) and the same replication factor, each coordinating at *)
(* most one client's set of the same key and serving the echoes of the     *)
(* others. The rings stay whole (no health tick falls into the run) and    *)
(* every peer answers.                                                     *)
(***************************************************************************)
ClusterPeers == {"a", "b", "c"}
ClusterKey == "k"
ClusterValues == {"v", "w"}

\* the -nodes flag of node n: the other nodes
OtherNodes(n) == SelectSeq(<<"a", "b", "c">>, LAMBDA p : p # n)

\* the loop of replicate on a ring that does not change: the peers selected
\* from idx on, or the error of GetNodeMapForRingIndex. A walk that has passed
\* WalkLaps laps of the ring without R peers is cut (it would not end).
RECURSIVE SelectLoop(_, _, _, _, _, _)
SelectLoop(r, hm, rf, idx, selected, steps) ==
    IF Cardinality(selected) >= rf THEN [peers |-> selected, err |-> "nil"]
    ELSE IF steps > WalkLaps * Len(r) THEN [peers |-> selected, err |-> "walk does not end"]
    ELSE LET found == GetNodeMapForRingIndex(r, hm, (idx + Cardinality(selected)) % RingLen(r))
             node  == found.nodeMap.Node
         IN  IF found.err # "nil" THEN [peers |-> selected, err |-> found.err]
             ELSE IF node \notin selected
             THEN SelectLoop(r, hm, rf, idx, selected \cup {node}, steps + 1)
             ELSE SelectLoop(r, hm, rf, idx + 1, selected, steps + 1)

\* a node that coordinates no write
IdleWrite == [pc |-> "idle", value |-> "", selected |-> {}, pending |-> {}, acks |-> {},
              err |-> "nil"]

\* node n after NewStore(OtherNodes(n), rf). applied lists the values the map
\* of n was given for the key, in the order of its lock.
ClusterNode(n, order, rf) ==
    LET h == NewHashRingManager(OtherNodes(n), order)
        s == NewStore(OtherNodes(n), rf)
    IN  [nodes |-> h.nodes, ring |-> h.ring, hashMap |-> h.hashMap,
         replicationFactor |-> s.replicationFactor, writeQuorum |-> s.writeQuorum,
         data |-> <<>>, applied |-> <<>>, wr |-> IdleWrite]

InitCluster ==
    /\ nodes = <<>>
    /\ ring = <<>>
    /\ hashMap = <<>>
    /\ activeNodes = {}
    /\ call = NoCall
    /\ mutations = 0
    /\ mutex = 0
    /\ replicationFactor = 0 /\ readQuorum = 0 /\ writeQuorum = 0
    /\ data = <<>>
    /\ mu = FALSE
    /\ req = IdleReq
    /\ tasks = <<>>
    /\ errs = [buf |-> {}, closed |-> FALSE]
    /\ workload = {}
    /\ tick = "sleep"
    /\ probes = <<>>
    /\ \E rf \in 1..2 :
       \E orders \in [ClusterPeers -> MapOrders({"a", "b", "c"})] :
         cluster = [n \in ClusterPeers |->
                      ClusterNode(n, SelectSeq(orders[n], LAMBDA p : p # n), rf)]

nodeVars == <<nodes, ring, hashMap, activeNodes, call, mutations, mutex, replicationFactor,
              readQuorum, writeQuorum, data, mu, req, tasks, errs, workload, tick, probes>>

\* a client's PUT /k at node n: Set updates the map of n under its lock, then
\* handleReplication calls replicate
ClusterSet(n, value) ==
    /\ cluster[n].wr.pc = "idle"
    /\ ValidationError("PUT", ClusterKey, value) = "nil"
    /\ cluster' = [cluster EXCEPT
                     ![n].data = LocalUpdate(@, "PUT", ClusterKey, value),
                     ![n].applied = Append(@, value),
                     ![n].wr = [IdleWrite EXCEPT !.pc = "replicate", !.value = value]]
    /\ UNCHANGED nodeVars

\* replicate at node n up to the end of its loop: the lookup, the walk, one
\* sub-request per selected peer
ClusterReplicate(n) ==
    /\ cluster[n].wr.pc = "replicate"
    /\ LET me    == cluster[n]
           found == GetRingIndex(me.ring, HashStr(ClusterKey))
           walk  == SelectLoop(me.ring, me.hashMap, me.replicationFactor, found.idx, {}, 0)
       IN  cluster' = [cluster EXCEPT ![n].wr =
                         IF me.replicationFactor = 0 THEN [@ EXCEPT !.pc = "done"]
                         ELSE IF found.err # "nil"
                         THEN [@ EXCEPT !.pc = "done", !.err = WrapReplicationError(found.err)]
                         ELSE IF walk.err # "nil"
                         THEN [@ EXCEPT !.pc = "done", !.err = WrapReplicationError(walk.err)]
                         ELSE [@ EXCEPT !.pc = "collect", !.selected = walk.peers,
                                        !.pending = walk.peers]]
    /\ UNCHANGED nodeVars

\* a peer that acks an echo without applying it
ClusterEchoAckOnly(c, p) ==
    /\ cluster[c].wr.pc = "collect"
    /\ p \in cluster[c].wr.pending
    /\ cluster' = [cluster EXCEPT ![c].wr.pending = @ \ {p}, ![c].wr.acks = @ \cup {p}]
    /\ UNCHANGED nodeVars

\* the sub-request of coordinator c reaches peer p: the handler of p sees the
\* marker, Set updates the map of p under its lock and skips the fan-out, p
\* answers 200 or 201, and replicateNode at c sends nil
ClusterEcho(c, p) ==
    /\ cluster[c].wr.pc = "collect"
    /\ p \in cluster[c].wr.pending
    /\ SkipReplication(ReplicationHeaderValue)
    /\ LET value  == cluster[c].wr.value
           status == WriteStatus("PUT", Get(cluster[p].data, ClusterKey).ok, "nil")
           acked  == Outcome(p, [err |-> "nil", status |-> status]) = "nil"
       IN  cluster' = [cluster EXCEPT
                         ![p].data = LocalUpdate(@, "PUT", ClusterKey, value),
                         ![p].applied = Append(@, value),
                         ![c].wr.pending = @ \ {p},
                         ![c].wr.acks = IF acked THEN @ \cup {p} ELSE @]
    /\ UNCHANGED nodeVars

\* replicate at node c after wg.Wait(): the collecting loop and the result
ClusterDecide(c) ==
    /\ cluster[c].wr.pc = "collect"
    /\ cluster[c].wr.pending = {}
    /\ LET w == cluster[c].wr
           failed == {"failed to replicate to " \o p : p \in w.selected \ w.acks}
       IN  cluster' = [cluster EXCEPT ![c].wr =
                         [@ EXCEPT !.pc = "done",
                                   !.err = WrapReplicationError(
                                             QuorumResult(Cardinality(w.acks), failed,
                                                          cluster[c].writeQuorum))]]
    /\ UNCHANGED nodeVars

NextCluster ==
    \/ \E n \in ClusterPeers, value \in ClusterValues : ClusterSet(n, value)
    \/ \E n \in ClusterPeers : ClusterReplicate(n)
    \/ \E c \in ClusterPeers, p \in ClusterPeers : ClusterEcho(c, p)
    \/ \E c \in ClusterPeers : ClusterDecide(c)

SpecCluster == InitCluster /\ [][NextCluster]_vars

\* node c's write has returned success
ClusterWriteSucceeded(c) == cluster[c].wr.pc = "done" /\ cluster[c].wr.err = "nil"

\* the values clients have set at some node
ClusterWritten == {cluster[c].wr.value : c \in {n \in ClusterPeers : cluster[n].wr.pc # "idle"}}

\* C34: there is no ordering guarantee across clients. Each peer applies the
\* writes to a key one at a time, in some order of its own: its map holds the
\* value it applied last, which is one of the values written; a write that
\* returned success was applied by the coordinator and by every peer it
\* selected; nothing more holds: after two concurrent writes coordinated by
\* different nodes have both returned success, peers may hold different values
\* (C34_Witness).
C34_PerPeerOrderOnly ==
    /\ \A n \in ClusterPeers :
         /\ cluster[n].applied = <<>> => ~Get(cluster[n].data, ClusterKey).ok
         /\ cluster[n].applied # <<>>
              => /\ Get(cluster[n].data, ClusterKey)
                      = [val |-> cluster[n].applied[Len(cluster[n].applied)], ok |-> TRUE]
                 /\ Get(cluster[n].data, ClusterKey).val \in ClusterWritten
    /\ \A c \in ClusterPeers :
         ClusterWriteSucceeded(c)
            => (/\ Cardinality(cluster[c].wr.selected) = cluster[c].replicationFactor
                /\ \A p \in cluster[c].wr.selected \cup {c} :
                     cluster[c].wr.value \in Range(cluster[p].applied))

\* the set of "w" coordinated by b and the set of "v" coordinated by c have
\* both returned success, each with acks of both its peers, no request is
\* under way, and b holds "v" while c holds "w"
C34_Witness ==
    /\ ClusterWriteSucceeded("b") /\ cluster["b"].wr.value = "w"
    /\ ClusterWriteSucceeded("c") /\ cluster["c"].wr.value = "v"
    /\ cluster["b"].wr.acks = {"a", "c"} /\ cluster["c"].wr.acks = {"a", "b"}
    /\ cluster["a"].wr.pc \in {"idle", "done"}
    /\ Get(cluster["b"].data, ClusterKey) = [val |-> "v", ok |-> TRUE]
    /\ Get(cluster["c"].data, ClusterKey) = [val |-> "w", ok |-> TRUE]

====
